---- MODULE Spec2Model ----
(***************************************************************************)
(* Chart catalog and hard-link mirror of SRXD-charts-loader.               *)
(*                                                                         *)
(* SpecLink:      hardlink_proc.create_hardlink and                        *)
(*                delete_untargeted_hardlinks on any source directory,     *)
(*                mirror and target list.                                  *)
(* SpecIndex:     chart_db.load_srtb_files_to_sqlite and                   *)
(*                truncate_srtb_table on a source directory that changes   *)
(*                between passes.                                          *)
(* SpecRoundTrip: FilterTab.on_click_hardlink_creation_button, the search  *)
(*                followed by the reconciliation, on any table.            *)
(***************************************************************************)
EXTENDS Integers, Sequences, FiniteSets, TLC

(***************************************************************************)
(* Bounds and universes                                                    *)
(***************************************************************************)
\* longest target list handed to create_hardlink
MaxTargets == 2

\* A file name is the sequence of its dot-separated components: "x.v2.png"
\* is <<"x", "v2", "png">>.  A file reference or asset identifier is the
\* same for a name without extension: "x" is <<"x">>.

\* chart file stems (file references)
Refs == {<<"A">>, <<"B">>, <<"C">>}
ArtFiles  == {<<"x", "png">>, <<"x", "v2", "png">>}
ClipFiles == {<<"p", "ogg">>, <<"q", "ogg">>}

\* the (file_reference, albumart_asset_name, clip_asset_name) rows a target
\* list is drawn from; A and B share both assets
TargetPool ==
    { <<<<"A">>, <<"x">>, <<"p">>>>,
      <<<<"B">>, <<"x">>, <<"p">>>>,
      <<<<"C">>, <<"x", "v2">>, <<"q">>>> }

\* sequences over S of length at most n
SeqUpTo(S, n) == UNION { [1..k -> S] : k \in 0..n }

(***************************************************************************)
(* State                                                                   *)
(***************************************************************************)
VARIABLES
    fs,          \* directory -> set of regular files in it
    layout,      \* how hardlink_dir lies relative to custom_charts_dir
    srtb_list,   \* argument of the running create_hardlink
    idx,         \* loop index of create_hardlink (0-based, as in the code)
    pc,          \* position of create_hardlink
    result,      \* the Result being built
    events,      \* what the run has done so far, in order
    unlinked,    \* <<directory, file>> pairs the run has unlinked
    fs0,         \* the directories as the run found them
    filter_values, \* the filter forms as last submitted
    chart,       \* file reference -> modification time and content of the source chart file
    db,          \* the srtb table: stored file reference -> row
    now,         \* the database clock (CURRENT_TIMESTAMP)
    chart_file_list, \* the files enumerated by the running index pass
    load_idx,    \* loop index of load_srtb_files_to_sqlite
    load_pc,     \* position of load_srtb_files_to_sqlite
    load_log,    \* on_each_load calls of the pass, in order
    parsed,      \* file references srtb.load was called for in the pass
    upserted,    \* file references INSERT OR REPLACE was executed for in the pass
    db0,         \* the table as the pass found it
    rerun,       \* the pass directly follows a returned pass, nothing changed in between
    resumed,     \* the pass directly follows an interrupted pass, nothing changed in between
    fresh,       \* no file or table change from outside since the last pass began
    edits        \* number of changes made to the source directory

linkVars == <<fs, layout, srtb_list, idx, pc, result, events, unlinked, fs0, filter_values>>
indexVars == <<db, now, chart_file_list, load_idx, load_pc, load_log, parsed, upserted, db0, rerun, resumed, fresh, edits>>
vars == <<linkVars, chart, indexVars>>

\* directories: the source root and its two asset folders, the mirror root
\* and its two asset folders
Dirs == {"src", "srcArt", "srcClip", "mir", "mirArt", "mirClip"}

\* "samevol": two directories on one volume; "xvol": mirror on another
\* volume; "samedir": both settings name the same directory
Layouts == {"samevol", "xvol", "samedir"}

\* Windows error codes tested by create_hardlink, 5 standing for any other
ERROR_SUCCESS == 0
ERROR_FILE_NOT_FOUND == 2
ERROR_ACCESS_DENIED == 5
ERROR_NOT_SAME_DEVICE == 17
ERROR_ALREADY_EXISTS == 183

VOLUME_MESSAGE == "same volume only"

\* modification times are counted in ticks, TicksPerSecond to the second
TicksPerSecond == 2

\* what the parser makes of a chart file: two well-formed versions, a file
\* srtb.load rejects, a file whose read_clip_metadata fails
Contents == {"v1", "v2", "bad", "clipfail"}

\* attributes of a file that does not exist
Absent == [mtime |-> 0, content |-> "absent"]

\* Result()
Result == [has_error |-> FALSE, error_message |-> "", success_creation_count |-> 0]

\* paths computed at the head of create_hardlink
source_custom_chart_dir == "src"
source_album_art_dir == "srcArt"
source_clip_dir == "srcClip"
hardlink_dir == IF layout = "samedir" THEN "src" ELSE "mir"
hardlink_album_art_dir == IF layout = "samedir" THEN "srcArt" ELSE "mirArt"
hardlink_clip_dir == IF layout = "samedir" THEN "srcClip" ELSE "mirClip"

\* Path.stem: the name without its last component
Stem(f) == SubSeq(f, 1, Len(f) - 1)

\* f"{srtb_stem}.srtb"
SrtbName(stem) == stem \o <<"srtb">>
ChartFiles == { SrtbName(r) : r \in Refs }

\* dir.glob("*.srtb"): the files whose last component is srtb
GlobSrtb(d) == { f \in fs[d] : Len(f) >= 2 /\ f[Len(f)] = "srtb" }

\* dir.glob(glob.escape(name) + ".*"): the files whose name starts with
\* name followed by a dot
GlobAsset(d, name) ==
    { f \in fs[d] : Len(f) > Len(name) /\ SubSeq(f, 1, Len(name)) = name }

\* win32file.CreateHardLink(dst, src): the error it reports, 0 for none.
\* The existing file is opened first, then the link is set, which checks
\* the volume before the name collision.  Linking an existing file may
\* also fail for another reason.
PrimaryError(dstDir, srcDir, name) ==
    IF name \notin fs[srcDir] THEN ERROR_FILE_NOT_FOUND
    ELSE IF layout = "xvol" THEN ERROR_NOT_SAME_DEVICE
    ELSE IF name \in fs[dstDir] THEN ERROR_ALREADY_EXISTS
    ELSE ERROR_SUCCESS

CreateHardLink(dstDir, srcDir, name) ==
    {PrimaryError(dstDir, srcDir, name)}
    \cup (IF name \in fs[srcDir] THEN {ERROR_ACCESS_DENIED} ELSE {})

TypeOK ==
    /\ fs \in [Dirs -> SUBSET (ChartFiles \cup ArtFiles \cup ClipFiles)]
    /\ layout \in Layouts
    /\ srtb_list \in SeqUpTo(TargetPool, MaxTargets)
    /\ idx \in 0..MaxTargets
    /\ pc \in {"idle", "prune", "chart", "art", "clip", "done", "raised"}

(***************************************************************************)
(* hardlink_proc.create_hardlink                                           *)
(***************************************************************************)
\* the three columns of a target row
srtb_stem(t) == t[1]
albumart_asset_name(t) == t[2]
clip_asset_name(t) == t[3]

targeted_srtb_stem == { srtb_stem(srtb_list[i]) : i \in 1..Len(srtb_list) }
targeted_album_art_name == { albumart_asset_name(srtb_list[i]) : i \in 1..Len(srtb_list) }
targeted_clip_name == { clip_asset_name(srtb_list[i]) : i \in 1..Len(srtb_list) }

\* the target of the current loop iteration (idx is 0-based)
srtb == srtb_list[idx + 1]

\* logged in place of an error code when the glob finds no file
NO_FILE == -1

Event(kind, i, code) == <<kind, i, code>>

\* create_hardlink is entered with a target list: Result(), the paths and
\* the two mkdir calls (the folders hold no file when created)
create_hardlink(list) ==
    /\ srtb_list' = list
    /\ result' = Result
    /\ idx' = 0
    /\ events' = <<>>
    /\ unlinked' = {}
    /\ fs0' = fs
    /\ pc' = "prune"
    /\ UNCHANGED <<fs, layout>>
    /\ UNCHANGED <<chart, indexVars>>

\* a prune that leaves the chart links alone
UntargetedCharts_KeepAll == {}

\* a prune that tests the file name, not the stem, against the targets
UntargetedCharts_ByName == { f \in GlobSrtb(hardlink_dir) : f \notin targeted_srtb_stem }

\* the files delete_untargeted_hardlinks unlinks in each mirror folder
UntargetedCharts == { f \in GlobSrtb(hardlink_dir) : Stem(f) \notin targeted_srtb_stem }
UntargetedArt == { f \in fs[hardlink_album_art_dir] : Stem(f) \notin targeted_album_art_name }
UntargetedClips == { f \in fs[hardlink_clip_dir] : Stem(f) \notin targeted_clip_name }

\* delete_untargeted_hardlinks(srtb_list, hardlink_dir)
delete_untargeted_hardlinks ==
    /\ pc = "prune"
    /\ fs' = [d \in Dirs |->
                IF d = hardlink_dir THEN fs[d] \ UntargetedCharts
                ELSE IF d = hardlink_album_art_dir THEN fs[d] \ UntargetedArt
                ELSE IF d = hardlink_clip_dir THEN fs[d] \ UntargetedClips
                ELSE fs[d]]
    /\ unlinked' = unlinked
                   \cup { <<hardlink_dir, f>> : f \in UntargetedCharts }
                   \cup { <<hardlink_album_art_dir, f>> : f \in UntargetedArt }
                   \cup { <<hardlink_clip_dir, f>> : f \in UntargetedClips }
    /\ events' = Append(events, Event("prune", 0, 0))
    /\ pc' = "chart"
    /\ chart' = [r \in Refs |-> IF SrtbName(r) \in fs'[source_custom_chart_dir] THEN chart[r] ELSE Absent]
    /\ UNCHANGED <<layout, srtb_list, idx, result, fs0, filter_values>>
    /\ UNCHANGED indexVars

\* what one iteration has logged before its chart link attempt returns:
\* the progress callback, then the attempt with its error code
ChartEvents(code) ==
    events \o <<Event("callback", idx, Len(srtb_list)), Event("chart", idx, code)>>

\* loop iteration, chart link created: go on to the album art
LinkChartCreated ==
    /\ pc = "chart" /\ idx < Len(srtb_list)
    /\ ERROR_SUCCESS \in CreateHardLink(hardlink_dir, source_custom_chart_dir, SrtbName(srtb_stem(srtb)))
    /\ fs' = [fs EXCEPT ![hardlink_dir] = @ \cup {SrtbName(srtb_stem(srtb))}]
    /\ events' = ChartEvents(ERROR_SUCCESS)
    /\ pc' = "art"
    /\ UNCHANGED <<layout, srtb_list, idx, result, unlinked, fs0, filter_values>>
    /\ UNCHANGED <<chart, indexVars>>

\* winerror 2 handled without the continue: falls through to the assets
LinkChartSourceMissing_FallThrough ==
    /\ pc = "chart" /\ idx < Len(srtb_list)
    /\ ERROR_FILE_NOT_FOUND \in CreateHardLink(hardlink_dir, source_custom_chart_dir, SrtbName(srtb_stem(srtb)))
    /\ events' = ChartEvents(ERROR_FILE_NOT_FOUND)
    /\ pc' = "art"
    /\ UNCHANGED <<fs, layout, srtb_list, idx, result, unlinked, fs0, filter_values>>
    /\ UNCHANGED <<chart, indexVars>>

\* winerror 2: warning, continue
LinkChartSourceMissing ==
    /\ pc = "chart" /\ idx < Len(srtb_list)
    /\ ERROR_FILE_NOT_FOUND \in CreateHardLink(hardlink_dir, source_custom_chart_dir, SrtbName(srtb_stem(srtb)))
    /\ events' = ChartEvents(ERROR_FILE_NOT_FOUND)
    /\ idx' = idx + 1
    /\ UNCHANGED <<fs, layout, srtb_list, pc, result, unlinked, fs0, filter_values>>
    /\ UNCHANGED <<chart, indexVars>>

\* winerror 183 handled without the continue: falls through to the assets
LinkChartAlreadyExists_FallThrough ==
    /\ pc = "chart" /\ idx < Len(srtb_list)
    /\ ERROR_ALREADY_EXISTS \in CreateHardLink(hardlink_dir, source_custom_chart_dir, SrtbName(srtb_stem(srtb)))
    /\ events' = ChartEvents(ERROR_ALREADY_EXISTS)
    /\ pc' = "art"
    /\ UNCHANGED <<fs, layout, srtb_list, idx, result, unlinked, fs0, filter_values>>
    /\ UNCHANGED <<chart, indexVars>>

\* winerror 183: count it, continue
LinkChartAlreadyExists ==
    /\ pc = "chart" /\ idx < Len(srtb_list)
    /\ ERROR_ALREADY_EXISTS \in CreateHardLink(hardlink_dir, source_custom_chart_dir, SrtbName(srtb_stem(srtb)))
    /\ events' = ChartEvents(ERROR_ALREADY_EXISTS)
    /\ result' = [result EXCEPT !.success_creation_count = @ + 1]
    /\ idx' = idx + 1
    /\ UNCHANGED <<fs, layout, srtb_list, pc, unlinked, fs0, filter_values>>
    /\ UNCHANGED <<chart, indexVars>>

\* winerror 17 handled with continue in place of break
LinkChartCrossVolume_Continue ==
    /\ pc = "chart" /\ idx < Len(srtb_list)
    /\ ERROR_NOT_SAME_DEVICE \in CreateHardLink(hardlink_dir, source_custom_chart_dir, SrtbName(srtb_stem(srtb)))
    /\ events' = ChartEvents(ERROR_NOT_SAME_DEVICE)
    /\ result' = [result EXCEPT !.has_error = TRUE, !.error_message = VOLUME_MESSAGE]
    /\ idx' = idx + 1
    /\ UNCHANGED <<fs, layout, srtb_list, pc, unlinked, fs0, filter_values>>
    /\ UNCHANGED <<chart, indexVars>>

\* winerror 17: set the error, break, return result
LinkChartCrossVolume ==
    /\ pc = "chart" /\ idx < Len(srtb_list)
    /\ ERROR_NOT_SAME_DEVICE \in CreateHardLink(hardlink_dir, source_custom_chart_dir, SrtbName(srtb_stem(srtb)))
    /\ events' = ChartEvents(ERROR_NOT_SAME_DEVICE)
    /\ result' = [result EXCEPT !.has_error = TRUE, !.error_message = VOLUME_MESSAGE]
    /\ pc' = "done"
    /\ UNCHANGED <<fs, layout, srtb_list, idx, unlinked, fs0, filter_values>>
    /\ UNCHANGED <<chart, indexVars>>

\* any other winerror: logged and raised again
LinkChartOtherError ==
    /\ pc = "chart" /\ idx < Len(srtb_list)
    /\ ERROR_ACCESS_DENIED \in CreateHardLink(hardlink_dir, source_custom_chart_dir, SrtbName(srtb_stem(srtb)))
    /\ events' = ChartEvents(ERROR_ACCESS_DENIED)
    /\ pc' = "raised"
    /\ UNCHANGED <<fs, layout, srtb_list, idx, result, unlinked, fs0, filter_values>>
    /\ UNCHANGED <<chart, indexVars>>

\* album art linked without the try/except: a failed link is raised
LinkAlbumArt_Uncaught ==
    /\ pc = "art"
    /\ LET album_art_files == GlobAsset(source_album_art_dir, albumart_asset_name(srtb))
       IN IF album_art_files = {}
          THEN /\ events' = Append(events, Event("art", idx, NO_FILE))
               /\ fs' = fs
               /\ pc' = "clip"
          ELSE \E src_album_art_file \in album_art_files :
               \E code \in CreateHardLink(hardlink_album_art_dir, source_album_art_dir, src_album_art_file) :
                  /\ events' = Append(events, Event("art", idx, code))
                  /\ fs' = IF code = ERROR_SUCCESS
                           THEN [fs EXCEPT ![hardlink_album_art_dir] = @ \cup {src_album_art_file}]
                           ELSE fs
                  /\ pc' = IF code = ERROR_SUCCESS THEN "clip" ELSE "raised"
    /\ UNCHANGED <<layout, srtb_list, idx, result, unlinked, fs0, filter_values>>
    /\ UNCHANGED <<chart, indexVars>>

\* album art: the first file of the glob (in any order the folder lists
\* them) is linked; a pywintypes.error is printed and dropped; no file is a
\* warning (NO_FILE in the log)
LinkAlbumArt ==
    /\ pc = "art"
    /\ LET album_art_files == GlobAsset(source_album_art_dir, albumart_asset_name(srtb))
       IN IF album_art_files = {}
          THEN /\ events' = Append(events, Event("art", idx, NO_FILE))
               /\ fs' = fs
          ELSE \E src_album_art_file \in album_art_files :
               \E code \in CreateHardLink(hardlink_album_art_dir, source_album_art_dir, src_album_art_file) :
                  /\ events' = Append(events, Event("art", idx, code))
                  /\ fs' = IF code = ERROR_SUCCESS
                           THEN [fs EXCEPT ![hardlink_album_art_dir] = @ \cup {src_album_art_file}]
                           ELSE fs
    /\ pc' = "clip"
    /\ UNCHANGED <<layout, srtb_list, idx, result, unlinked, fs0, filter_values>>
    /\ UNCHANGED <<chart, indexVars>>

\* the clip step with the success count left out when no clip file is found
LinkClip_NoCount ==
    /\ pc = "clip"
    /\ LET clip_files == GlobAsset(source_clip_dir, clip_asset_name(srtb))
       IN IF clip_files = {}
          THEN /\ events' = Append(events, Event("clip", idx, NO_FILE))
               /\ fs' = fs
               /\ result' = result
               /\ idx' = idx + 1
               /\ pc' = "chart"
          ELSE \E src_clip_file \in clip_files :
               \E code \in CreateHardLink(hardlink_clip_dir, source_clip_dir, src_clip_file) :
                  /\ events' = Append(events, Event("clip", idx, code))
                  /\ IF code = ERROR_SUCCESS
                     THEN /\ fs' = [fs EXCEPT ![hardlink_clip_dir] = @ \cup {src_clip_file}]
                          /\ result' = [result EXCEPT !.success_creation_count = @ + 1]
                          /\ idx' = idx + 1
                          /\ pc' = "chart"
                     ELSE /\ pc' = "raised"
                          /\ UNCHANGED <<fs, result, idx>>
    /\ UNCHANGED <<layout, srtb_list, unlinked, fs0, filter_values>>
    /\ UNCHANGED <<chart, indexVars>>

\* clip: the same search; the link's error is not caught.  Then the
\* success count and the next iteration.
LinkClip ==
    /\ pc = "clip"
    /\ LET clip_files == GlobAsset(source_clip_dir, clip_asset_name(srtb))
       IN IF clip_files = {}
          THEN /\ events' = Append(events, Event("clip", idx, NO_FILE))
               /\ fs' = fs
               /\ result' = [result EXCEPT !.success_creation_count = @ + 1]
               /\ idx' = idx + 1
               /\ pc' = "chart"
          ELSE \E src_clip_file \in clip_files :
               \E code \in CreateHardLink(hardlink_clip_dir, source_clip_dir, src_clip_file) :
                  /\ events' = Append(events, Event("clip", idx, code))
                  /\ IF code = ERROR_SUCCESS
                     THEN /\ fs' = [fs EXCEPT ![hardlink_clip_dir] = @ \cup {src_clip_file}]
                          /\ result' = [result EXCEPT !.success_creation_count = @ + 1]
                          /\ idx' = idx + 1
                          /\ pc' = "chart"
                     ELSE /\ pc' = "raised"
                          /\ UNCHANGED <<fs, result, idx>>
    /\ UNCHANGED <<layout, srtb_list, unlinked, fs0, filter_values>>
    /\ UNCHANGED <<chart, indexVars>>

\* the loop is exhausted: return result
ReturnResult ==
    /\ pc = "chart" /\ idx = Len(srtb_list)
    /\ pc' = "done"
    /\ UNCHANGED <<fs, layout, srtb_list, idx, result, events, unlinked, fs0, filter_values>>
    /\ UNCHANGED <<chart, indexVars>>

\* SearchCondition(): every field None.  None and the empty list behave
\* alike in generate_where_query and are both written <<>>; None and ""
\* of a text field are both written NULL.
SearchCondition ==
    [ title |-> <<>>, artist |-> <<>>, charter |-> <<>>,
      min_diff_level |-> -1, max_diff_level |-> -1,
      min_duration |-> -1, max_duration |-> -1,
      exclude_artist |-> <<>>, exclude_charter |-> <<>> ]

\* no index pass has run: the table is empty
IndexIdle ==
    /\ db = <<>>
    /\ now = 0
    /\ chart_file_list = <<>>
    /\ load_idx = 0
    /\ load_pc = "idle"
    /\ load_log = <<>>
    /\ parsed = {}
    /\ upserted = {}
    /\ db0 = <<>>
    /\ rerun = FALSE
    /\ resumed = FALSE
    /\ fresh = FALSE
    /\ edits = 0

(***************************************************************************)
(* The reconciler started on any source and mirror contents                *)
(***************************************************************************)
InitLink ==
    /\ layout \in Layouts
    /\ \E sc \in SUBSET ChartFiles, sa \in SUBSET ArtFiles, scl \in SUBSET ClipFiles,
          mc \in SUBSET ChartFiles, ma \in SUBSET ArtFiles, mcl \in SUBSET ClipFiles :
          /\ layout = "samedir" => (mc = {} /\ ma = {} /\ mcl = {})
          /\ fs = [d \in Dirs |->
                     CASE d = "src" -> sc [] d = "srcArt" -> sa [] d = "srcClip" -> scl
                       [] d = "mir" -> mc [] d = "mirArt" -> ma [] d = "mirClip" -> mcl]
    /\ srtb_list = <<>>
    /\ idx = 0
    /\ pc = "idle"
    /\ result = Result
    /\ events = <<>>
    /\ unlinked = {}
    /\ fs0 = fs
    /\ chart = [r \in Refs |-> IF SrtbName(r) \in fs[source_custom_chart_dir]
                               THEN [mtime |-> 0, content |-> "v1"] ELSE Absent]
    /\ filter_values = SearchCondition
    /\ IndexIdle

NextLink ==
    \/ \E list \in SeqUpTo(TargetPool, MaxTargets) :
          pc = "idle" /\ create_hardlink(list) /\ UNCHANGED filter_values
    \/ delete_untargeted_hardlinks
    \/ LinkChartCreated
    \/ LinkChartSourceMissing
    \/ LinkChartAlreadyExists
    \/ LinkChartCrossVolume
    \/ LinkChartOtherError
    \/ LinkAlbumArt
    \/ LinkClip
    \/ ReturnResult

SpecLink == InitLink /\ [][NextLink]_vars

(***************************************************************************)
(* chart_db: the srtb table and load_srtb_files_to_sqlite                  *)
(***************************************************************************)
\* bounds of the index model: latest modification tick, latest clock
\* value, number of changes made to the source directory
MaxMtime == 2
MaxClock == 1
MaxEdits == 1

\* SQL NULL / Python None in an integer column
NULL == -1

\* datetime.fromtimestamp(st_mtime).strftime("%Y-%m-%d %H:%M:%S"): the
\* modification time cut to whole seconds
FormatMtime(m) == m \div TicksPerSecond

\* ChartDifficulty(level, is_defined)
Difficulty(level, is_defined) == [level |-> level, is_defined |-> is_defined]
Undefined == Difficulty(0, FALSE)

\* get_difficulty_value
get_difficulty_value(difficulty) == IF difficulty.is_defined THEN difficulty.level ELSE NULL

\* the row of TargetPool that names the assets of a chart
PoolRow(r) == CHOOSE t \in TargetPool : t[1] = r

\* srtb.load followed by read_clip_metadata: the descriptor of a
\* well-formed chart file.  Texts are sequences of characters.
srtb_load(r, content) ==
    [ file_reference |-> r,
      track_title |-> CASE r = <<"A">> -> (IF content = "v2" THEN <<"b">> ELSE <<"a", "b">>)
                        [] r = <<"B">> -> <<"B", "a">>
                        [] OTHER -> <<"c">>,
      track_subtitle |-> <<>>,
      track_artist |-> CASE r = <<"A">> -> <<"x">>
                         [] r = <<"B">> -> <<"y">>
                         [] OTHER -> <<"x", "y">>,
      charter |-> IF r = <<"C">> THEN <<"n">> ELSE <<"m">>,
      easy_difficulty |-> IF r = <<"B">> \/ content = "v2" THEN Difficulty(3, TRUE) ELSE Undefined,
      normal_difficulty |-> Undefined,
      hard_difficulty |-> IF r = <<"A">> THEN Difficulty(7, TRUE) ELSE Undefined,
      expert_difficulty |-> Undefined,
      xd_difficulty |-> IF r = <<"B">> THEN Difficulty(9, TRUE) ELSE Undefined,
      albumart_asset_name |-> PoolRow(r)[2],
      clip_asset_name |-> PoolRow(r)[3],
      self_path |-> SrtbName(r),
      clip_duration |-> CASE r = <<"A">> -> 60 [] r = <<"B">> -> 200 [] OTHER -> NULL ]

\* the values of the INSERT OR REPLACE, with the created_at default
Row(c, file_modified_at, created_at) ==
    [ file_reference |-> c.file_reference,
      track_title |-> c.track_title,
      track_subtitle |-> c.track_subtitle,
      track_artist |-> c.track_artist,
      charter |-> c.charter,
      easy_difficulty |-> get_difficulty_value(c.easy_difficulty),
      normal_difficulty |-> get_difficulty_value(c.normal_difficulty),
      hard_difficulty |-> get_difficulty_value(c.hard_difficulty),
      expert_difficulty |-> get_difficulty_value(c.expert_difficulty),
      xd_difficulty |-> get_difficulty_value(c.xd_difficulty),
      albumart_asset_name |-> c.albumart_asset_name,
      clip_asset_name |-> c.clip_asset_name,
      self_path |-> c.self_path,
      clip_duration |-> c.clip_duration,
      file_modified_at |-> file_modified_at,
      created_at |-> created_at ]

\* an insert that replaces the whole table by the one row
Upsert_DropOthers(table, row) ==
    [ r \in {row.file_reference} |-> row ]

\* INSERT OR REPLACE on the primary key file_reference
Upsert(table, row) ==
    [ r \in DOMAIN table \cup {row.file_reference} |->
        IF r = row.file_reference THEN row ELSE table[r] ]

\* the order in which the source directory lists its chart files
RefOrder == << <<"A">>, <<"B">>, <<"C">> >>

\* list(Path(custom_chart_dir).glob("*.srtb")), by stem
GlobChartStems ==
    SelectSeq(RefOrder, LAMBDA r : SrtbName(r) \in GlobSrtb(source_custom_chart_dir))

\* the file of the current iteration
chart_file == chart_file_list[load_idx + 1]

\* a skip test that compares nothing: every file is parsed again
IsCurrent_Never(r) == FALSE

\* lines 151-154: the stored file_modified_at equals the formatted st_mtime
IsCurrent(r) ==
    /\ r \in DOMAIN db
    /\ db[r].file_modified_at = FormatMtime(chart[r].mtime)

\* load_srtb_files_to_sqlite is entered, at a time t not before the last
\* pass: connection, cursor, file list
load_srtb_files_to_sqlite(t) ==
    /\ load_pc # "loop"
    /\ now' = t
    /\ chart_file_list' = GlobChartStems
    /\ load_idx' = 0
    /\ load_pc' = "loop"
    /\ load_log' = <<>>
    /\ parsed' = {}
    /\ upserted' = {}
    /\ db0' = db
    /\ rerun' = (load_pc = "returned" /\ fresh)
    /\ resumed' = (load_pc = "failed" /\ fresh)
    /\ fresh' = TRUE
    /\ pc \in {"idle", "done", "raised"} /\ pc' = "idle"
    /\ UNCHANGED <<db, edits, chart>>
    /\ UNCHANGED <<fs, layout, srtb_list, idx, result, events, unlinked, fs0, filter_values>>

InLoop == load_pc = "loop" /\ load_idx < Len(chart_file_list)

\* already loaded and not modified: continue
LoadSkip ==
    /\ InLoop
    /\ IsCurrent(chart_file)
    /\ load_idx' = load_idx + 1
    /\ UNCHANGED <<db, now, chart_file_list, load_pc, load_log, parsed, upserted, db0, rerun, resumed, fresh, edits>>
    /\ UNCHANGED <<chart, linkVars>>

\* a parse failure that is reported to on_each_load all the same
LoadParseFailed_Notifies ==
    /\ InLoop
    /\ ~IsCurrent(chart_file)
    /\ chart[chart_file].content = "bad"
    /\ parsed' = parsed \cup {chart_file}
    /\ load_log' = Append(load_log, <<chart_file, load_idx, Len(chart_file_list)>>)
    /\ load_idx' = load_idx + 1
    /\ UNCHANGED <<db, now, chart_file_list, load_pc, upserted, db0, rerun, resumed, fresh, edits>>
    /\ UNCHANGED <<chart, linkVars>>

\* srtb.load raises: logged, continue
LoadParseFailed ==
    /\ InLoop
    /\ ~IsCurrent(chart_file)
    /\ chart[chart_file].content = "bad"
    /\ parsed' = parsed \cup {chart_file}
    /\ load_idx' = load_idx + 1
    /\ UNCHANGED <<db, now, chart_file_list, load_pc, load_log, upserted, db0, rerun, resumed, fresh, edits>>
    /\ UNCHANGED <<chart, linkVars>>

\* read_clip_metadata raises outside the try: the pass ends by exception
LoadEnrichFailed ==
    /\ InLoop
    /\ ~IsCurrent(chart_file)
    /\ chart[chart_file].content = "clipfail"
    /\ parsed' = parsed \cup {chart_file}
    /\ load_pc' = "failed"
    /\ UNCHANGED <<db, now, chart_file_list, load_idx, load_log, upserted, db0, rerun, resumed, fresh, edits>>
    /\ UNCHANGED <<chart, linkVars>>

\* the upsert with the time of the pass stored in place of the file's
LoadUpsert_ClockAsMtime ==
    /\ InLoop
    /\ ~IsCurrent(chart_file)
    /\ chart[chart_file].content \in {"v1", "v2"}
    /\ parsed' = parsed \cup {chart_file}
    /\ db' = Upsert(db, Row(srtb_load(chart_file, chart[chart_file].content), now, now))
    /\ upserted' = upserted \cup {chart_file}
    /\ load_log' = Append(load_log, <<chart_file, load_idx, Len(chart_file_list)>>)
    /\ load_idx' = load_idx + 1
    /\ UNCHANGED <<now, chart_file_list, load_pc, db0, rerun, resumed, fresh, edits>>
    /\ UNCHANGED <<chart, linkVars>>

\* parsed: INSERT OR REPLACE, on_each_load, commit
LoadUpsert ==
    /\ InLoop
    /\ ~IsCurrent(chart_file)
    /\ chart[chart_file].content \in {"v1", "v2"}
    /\ parsed' = parsed \cup {chart_file}
    /\ db' = Upsert(db, Row(srtb_load(chart_file, chart[chart_file].content),
                            FormatMtime(chart[chart_file].mtime), now))
    /\ upserted' = upserted \cup {chart_file}
    /\ load_log' = Append(load_log, <<chart_file, load_idx, Len(chart_file_list)>>)
    /\ load_idx' = load_idx + 1
    /\ UNCHANGED <<now, chart_file_list, load_pc, db0, rerun, resumed, fresh, edits>>
    /\ UNCHANGED <<chart, linkVars>>

\* parsed and inserted, on_each_load raises before the commit: the pass
\* ends by exception and the uncommitted row is lost with the connection
LoadCallbackFailed ==
    /\ InLoop
    /\ ~IsCurrent(chart_file)
    /\ chart[chart_file].content \in {"v1", "v2"}
    /\ parsed' = parsed \cup {chart_file}
    /\ upserted' = upserted \cup {chart_file}
    /\ load_log' = Append(load_log, <<chart_file, load_idx, Len(chart_file_list)>>)
    /\ load_pc' = "failed"
    /\ UNCHANGED <<db, now, chart_file_list, load_idx, db0, rerun, resumed, fresh, edits>>
    /\ UNCHANGED <<chart, linkVars>>

\* the process ends between two statements of the loop (killed, power
\* loss, a failure of the storage layer): what is not committed is lost
LoadCrash ==
    /\ load_pc = "loop"
    /\ load_pc' = "failed"
    /\ UNCHANGED <<db, now, chart_file_list, load_idx, load_log, parsed, upserted, db0, rerun, resumed, fresh, edits>>
    /\ UNCHANGED <<chart, linkVars>>

\* the loop is exhausted: conn.close()
LoadReturn ==
    /\ load_pc = "loop" /\ load_idx = Len(chart_file_list)
    /\ load_pc' = "returned"
    /\ UNCHANGED <<db, now, chart_file_list, load_idx, load_log, parsed, upserted, db0, rerun, resumed, fresh, edits>>
    /\ UNCHANGED <<chart, linkVars>>

\* truncate_srtb_table: DELETE FROM srtb, commit
truncate_srtb_table ==
    /\ load_pc # "loop"
    /\ db' = <<>>
    /\ fresh' = FALSE
    /\ pc \in {"idle", "done", "raised"} /\ pc' = "idle"
    /\ UNCHANGED <<now, chart_file_list, load_idx, load_pc, load_log, parsed, upserted, db0, rerun, resumed, edits, chart>>
    /\ UNCHANGED <<fs, layout, srtb_list, idx, result, events, unlinked, fs0, filter_values>>

\* between two passes a chart file is written in the source directory
\* (created or modified), with any modification time
WriteChart(r, m, content) ==
    /\ load_pc # "loop" /\ pc \in {"idle", "done", "raised"}
    /\ edits < MaxEdits
    /\ chart[r] # [mtime |-> m, content |-> content]
    /\ chart' = [chart EXCEPT ![r] = [mtime |-> m, content |-> content]]
    /\ fs' = [fs EXCEPT ![source_custom_chart_dir] = @ \cup {SrtbName(r)}]
    /\ edits' = edits + 1
    /\ fresh' = FALSE
    /\ pc' = "idle"
    /\ UNCHANGED <<db, now, chart_file_list, load_idx, load_pc, load_log, parsed, upserted, db0, rerun, resumed>>
    /\ UNCHANGED <<layout, srtb_list, idx, result, events, unlinked, fs0, filter_values>>

\* between two passes a chart file is deleted from the source directory
DeleteChart(r) ==
    /\ load_pc # "loop" /\ pc \in {"idle", "done", "raised"}
    /\ edits < MaxEdits
    /\ SrtbName(r) \in fs[source_custom_chart_dir]
    /\ chart' = [chart EXCEPT ![r] = Absent]
    /\ fs' = [fs EXCEPT ![source_custom_chart_dir] = @ \ {SrtbName(r)}]
    /\ edits' = edits + 1
    /\ fresh' = FALSE
    /\ pc' = "idle"
    /\ UNCHANGED <<db, now, chart_file_list, load_idx, load_pc, load_log, parsed, upserted, db0, rerun, resumed>>
    /\ UNCHANGED <<layout, srtb_list, idx, result, events, unlinked, fs0, filter_values>>

(***************************************************************************)
(* The indexer on a source directory that holds A and B or less (C comes   *)
(* by WriteChart), the table empty at first                                *)
(***************************************************************************)
InitIndex ==
    /\ layout = "samevol"
    /\ chart \in [Refs -> {Absent} \cup [mtime : {0}, content : Contents]]
    /\ chart[<<"C">>] = Absent
    /\ fs = [d \in Dirs |->
               IF d = "src" THEN { SrtbName(r) : r \in { q \in Refs : chart[q] # Absent } }
               ELSE {}]
    /\ srtb_list = <<>>
    /\ idx = 0
    /\ pc = "idle"
    /\ result = Result
    /\ events = <<>>
    /\ unlinked = {}
    /\ fs0 = fs
    /\ filter_values = SearchCondition
    /\ IndexIdle

NextIndex ==
    \/ \E t \in now..MaxClock : load_srtb_files_to_sqlite(t)
    \/ LoadSkip
    \/ LoadParseFailed
    \/ LoadEnrichFailed
    \/ LoadUpsert
    \/ LoadCallbackFailed
    \/ LoadCrash
    \/ LoadReturn
    \/ truncate_srtb_table
    \/ \E r \in Refs, m \in 0..MaxMtime, content \in Contents : WriteChart(r, m, content)
    \/ \E r \in Refs : DeleteChart(r)

SpecIndex == InitIndex /\ [][NextIndex]_vars

(***************************************************************************)
(* chart_db: SearchCondition.generate_where_query, search_file_reference   *)
(* Values are texts without quote characters.                              *)
(***************************************************************************)
\* SQLite folds ASCII letters in LIKE
Lower(ch) == CASE ch = "A" -> "a" [] ch = "B" -> "b" [] ch = "X" -> "x" [] OTHER -> ch

\* text LIKE pattern: % is any run of characters, _ any one character
RECURSIVE Like(_, _)
Like(text, pattern) ==
    IF pattern = <<>> THEN text = <<>>
    ELSE IF Head(pattern) = "%"
         THEN Like(text, Tail(pattern)) \/ (text # <<>> /\ Like(Tail(text), pattern))
         ELSE /\ text # <<>>
              /\ (Head(pattern) = "_" \/ Lower(Head(text)) = Lower(Head(pattern)))
              /\ Like(Tail(text), Tail(pattern))

\* one comparison of the WHERE clause
Term(column, op, value) == [column |-> column, op |-> op, value |-> value]

\* a parenthesised group of comparisons joined by OR or by AND
Group(join, terms) == [join |-> join, terms |-> terms]

\* the list comprehension f"{column} LIKE '%{v}%'" for v in values
Terms(column, op, values) == [k \in 1..Len(values) |-> Term(column, op, values[k])]

\* an exclusion that is satisfied when any one of the values is absent
ExcludeGroup_AnyAbsent(column, values) == Group("OR", Terms(column, "NOT LIKE", values))

\* "(" + " AND ".join(f"{column} NOT LIKE '%{v}%'" for v in values) + ")"
ExcludeGroup(column, values) == Group("AND", Terms(column, "NOT LIKE", values))

DifficultyColumns ==
    <<"easy_difficulty", "normal_difficulty", "hard_difficulty", "expert_difficulty", "xd_difficulty">>

\* generate_where_query: the list conditions, which " AND ".join turns
\* into the WHERE clause
generate_where_query(c) ==
    (IF c.title # <<>> /\ c.title[1] # <<>>
       THEN <<Group("OR", Terms("track_title", "LIKE", c.title))>> ELSE <<>>)
    \o (IF c.artist # <<>> /\ c.artist[1] # <<>>
       THEN <<Group("OR", Terms("track_artist", "LIKE", c.artist))>> ELSE <<>>)
    \o (IF c.charter # <<>> /\ c.charter[1] # <<>>
       THEN <<Group("OR", Terms("charter", "LIKE", c.charter))>> ELSE <<>>)
    \o (IF c.min_diff_level # NULL
       THEN <<Group("OR", [k \in 1..5 |-> Term(DifficultyColumns[k], ">=", c.min_diff_level)])>> ELSE <<>>)
    \o (IF c.max_diff_level # NULL
       THEN <<Group("OR", [k \in 1..5 |-> Term(DifficultyColumns[k], "<=", c.max_diff_level)])>> ELSE <<>>)
    \o (IF c.min_duration # NULL
       THEN <<Group("AND", <<Term("clip_duration", ">=", c.min_duration)>>)>> ELSE <<>>)
    \o (IF c.max_duration # NULL
       THEN <<Group("AND", <<Term("clip_duration", "<=", c.max_duration)>>)>> ELSE <<>>)
    \o (IF c.exclude_artist # <<>>
       THEN <<ExcludeGroup("track_artist", c.exclude_artist)>> ELSE <<>>)
    \o (IF c.exclude_charter # <<>>
       THEN <<ExcludeGroup("charter", c.exclude_charter)>> ELSE <<>>)

\* SQLite's value of one comparison on a row; a comparison with NULL is
\* not true
EvalTerm(row, t) ==
    CASE t.op = "LIKE" -> Like(row[t.column], <<"%">> \o t.value \o <<"%">>)
      [] t.op = "NOT LIKE" -> ~Like(row[t.column], <<"%">> \o t.value \o <<"%">>)
      [] t.op = ">=" -> row[t.column] # NULL /\ row[t.column] >= t.value
      [] t.op = "<=" -> row[t.column] # NULL /\ row[t.column] <= t.value

EvalGroup(row, g) ==
    IF g.join = "OR"
    THEN \E k \in DOMAIN g.terms : EvalTerm(row, g.terms[k])
    ELSE \A k \in DOMAIN g.terms : EvalTerm(row, g.terms[k])

\* search_file_reference: the rows of the SELECT, as a set
search_file_reference(condition) ==
    LET where_query == generate_where_query(condition)
        selected == IF where_query # <<>>
                    THEN { r \in DOMAIN db : \A k \in DOMAIN where_query : EvalGroup(db[r], where_query[k]) }
                    ELSE DOMAIN db
    IN { <<db[r].file_reference, db[r].albumart_asset_name, db[r].clip_asset_name>> : r \in selected }

\* the lists fetchall may return for a set of rows: any order
Orderings(rows) ==
    { l \in [1..Cardinality(rows) -> rows] : \A i, j \in DOMAIN l : i # j => l[i] # l[j] }

\* the filter form values submitted
FilterValues ==
    { SearchCondition,
      [SearchCondition EXCEPT !.title = << <<"a">> >>],
      [SearchCondition EXCEPT !.min_diff_level = 5, !.exclude_artist = << <<"y">> >>],
      [SearchCondition EXCEPT !.max_duration = 100] }

\* FilterTab.on_click_hardlink_creation_button: search, then create_hardlink
\* with the search result
on_click_hardlink_creation_button(values) ==
    /\ pc \in {"idle", "done", "raised"} /\ load_pc # "loop"
    /\ filter_values' = values
    /\ \E search_result \in Orderings(search_file_reference(values)) : create_hardlink(search_result)

(***************************************************************************)
(* Search and reconciliation on any table, source directory and mirror:    *)
(* a row may be stored for a chart file that no longer exists.             *)
(***************************************************************************)
\* the rows an index pass can have stored for r
StoredRows(r) ==
    { Row(srtb_load(r, content), 0, 0) : content \in (IF r = <<"A">> THEN {"v1", "v2"} ELSE {"v1"}) }

InitRoundTrip ==
    /\ layout \in Layouts
    /\ \E stored \in SUBSET Refs : db \in { t \in [stored -> UNION { StoredRows(r) : r \in Refs }] :
                                            \A r \in stored : t[r].file_reference = r }
    /\ \E sc \in SUBSET ChartFiles, sa \in {{}, ArtFiles}, scl \in {{}, ClipFiles},
          mc \in SUBSET ChartFiles, mcl \in {{}, ClipFiles} :
          /\ layout = "samedir" => (mc = {} /\ mcl = {})
          /\ fs = [d \in Dirs |->
                     CASE d = "src" -> sc [] d = "srcArt" -> sa [] d = "srcClip" -> scl
                       [] d = "mir" -> mc [] d = "mirArt" -> {} [] d = "mirClip" -> mcl]
    /\ chart = [r \in Refs |-> IF SrtbName(r) \in fs[source_custom_chart_dir]
                               THEN [mtime |-> 0, content |-> "v1"] ELSE Absent]
    /\ srtb_list = <<>>
    /\ idx = 0
    /\ pc = "idle"
    /\ result = Result
    /\ events = <<>>
    /\ unlinked = {}
    /\ fs0 = fs
    /\ filter_values = SearchCondition
    /\ now = 0
    /\ chart_file_list = <<>>
    /\ load_idx = 0
    /\ load_pc = "idle"
    /\ load_log = <<>>
    /\ parsed = {}
    /\ upserted = {}
    /\ db0 = <<>>
    /\ rerun = FALSE
    /\ resumed = FALSE
    /\ fresh = FALSE
    /\ edits = 0

NextRoundTrip ==
    \/ \E values \in FilterValues : pc = "idle" /\ on_click_hardlink_creation_button(values)
    \/ delete_untargeted_hardlinks
    \/ LinkChartCreated
    \/ LinkChartSourceMissing
    \/ LinkChartAlreadyExists
    \/ LinkChartCrossVolume
    \/ LinkChartOtherError
    \/ LinkAlbumArt
    \/ LinkClip
    \/ ReturnResult

SpecRoundTrip == InitRoundTrip /\ [][NextRoundTrip]_vars

(***************************************************************************)
(* The WHERE clause as the text that is executed.  The text is a sequence  *)
(* of the words of the f-string templates and of the characters of the     *)
(* values pasted into them; a number is written "#".                       *)
(***************************************************************************)
\* f"{column} LIKE '%{value}%'", f"{column} >= {value}"
TermText(t) ==
    IF t.op \in {"LIKE", "NOT LIKE"}
    THEN <<t.column, t.op, "'", "%">> \o t.value \o <<"%", "'">>
    ELSE <<t.column, t.op, "#">>

\* separator.join(parts)
RECURSIVE JoinText(_, _)
JoinText(parts, separator) ==
    IF parts = <<>> THEN <<>>
    ELSE IF Len(parts) = 1 THEN parts[1]
    ELSE parts[1] \o <<separator>> \o JoinText(Tail(parts), separator)

\* "(" + " OR ".join(...) + ")"; the duration comparisons stand bare
GroupText(g) ==
    LET inner == JoinText([k \in DOMAIN g.terms |-> TermText(g.terms[k])], g.join)
    IN IF g.terms[1].column = "clip_duration" THEN inner ELSE <<"(">> \o inner \o <<")">>

\* " AND ".join(conditions): the string generate_where_query returns
where_query(c) ==
    LET conditions == generate_where_query(c)
    IN JoinText([k \in DOMAIN conditions |-> GroupText(conditions[k])], "AND")

\* SQLite's tokenizer on that text: a quote opens a string literal, which
\* runs to the next quote that is not doubled; the literal is one token,
\* whatever it holds, and everything outside a literal is syntax
RECURSIVE Tokens(_, _)
Tokens(text, in_string) ==
    IF text = <<>> THEN (IF in_string THEN <<"unterminated">> ELSE <<>>)
    ELSE IF ~in_string
         THEN IF Head(text) = "'" THEN Tokens(Tail(text), TRUE)
              ELSE <<Head(text)>> \o Tokens(Tail(text), FALSE)
         ELSE IF Head(text) # "'" THEN Tokens(Tail(text), TRUE)
              ELSE IF Len(text) >= 2 /\ text[2] = "'" THEN Tokens(Tail(Tail(text)), TRUE)
                   ELSE <<"string">> \o Tokens(Tail(text), FALSE)

\* the structure of the predicate that is executed for a condition
Structure(c) == Tokens(where_query(c), FALSE)

(***************************************************************************)
(* Searches on any table: the handler of the link button up to the call    *)
(* of create_hardlink, for every condition the filter forms can submit     *)
(***************************************************************************)
\* what a text form with comma_split submits: None when disabled, else
\* text_field.value.split(","), which is [""] for an empty field
TitleValues ==
    { <<>>, << <<>> >>, << <<"a">> >>, << <<"a">>, <<"c">> >>, << <<>>, <<"a">> >>, << <<"_">> >> }
ArtistValues == { <<>>, << <<"x">> >> }
CharterValues == { <<>>, << <<"m">> >> }
ExcludeArtistValues == { <<>>, << <<>> >>, << <<"y">> >>, << <<"x">>, <<"y">> >> }
ExcludeCharterValues == { <<>>, << <<"n">> >>, << <<"_">> >> }

\* what the level forms and the duration dropdowns submit
MinLevelValues == {NULL, 4, 5}
MaxLevelValues == {NULL, 6}
MinDurationValues == {NULL, 100}
MaxDurationValues == {NULL, 100}

\* SearchCondition(**filter_values) for the submitted values
SearchConditions ==
    [ title : TitleValues, artist : ArtistValues, charter : CharterValues,
      min_diff_level : MinLevelValues, max_diff_level : MaxLevelValues,
      min_duration : MinDurationValues, max_duration : MaxDurationValues,
      exclude_artist : ExcludeArtistValues, exclude_charter : ExcludeCharterValues ]

InitSearch ==
    /\ layout = "samevol"
    /\ \E stored \in SUBSET Refs : db \in { t \in [stored -> UNION { StoredRows(r) : r \in Refs }] :
                                            \A r \in stored : t[r].file_reference = r }
    /\ fs = [d \in Dirs |-> {}]
    /\ chart = [r \in Refs |-> Absent]
    /\ srtb_list = <<>>
    /\ idx = 0
    /\ pc = "idle"
    /\ result = Result
    /\ events = <<>>
    /\ unlinked = {}
    /\ fs0 = fs
    /\ filter_values = SearchCondition
    /\ now = 0
    /\ chart_file_list = <<>>
    /\ load_idx = 0
    /\ load_pc = "idle"
    /\ load_log = <<>>
    /\ parsed = {}
    /\ upserted = {}
    /\ db0 = <<>>
    /\ rerun = FALSE
    /\ resumed = FALSE
    /\ fresh = FALSE
    /\ edits = 0

NextSearch ==
    \E values \in SearchConditions : pc = "idle" /\ on_click_hardlink_creation_button(values)

SpecSearch == InitSearch /\ [][NextSearch]_vars

(***************************************************************************)
(* Reading the log of a run                                                *)
(***************************************************************************)
\* the codes logged for target i by the link attempts of one kind
Codes(kind, i) ==
    { events[k][3] : k \in { j \in DOMAIN events : events[j][1] = kind /\ events[j][2] = i } }

Positions == 0..(Len(srtb_list) - 1)

\* targets whose chart link was created or was already there
ChartLinked == { i \in Positions : Codes("chart", i) \cap {ERROR_SUCCESS, ERROR_ALREADY_EXISTS} # {} }

\* targets whose iteration reached the success count
Counted ==
    { i \in Positions :
        \/ ERROR_ALREADY_EXISTS \in Codes("chart", i)
        \/ Codes("clip", i) \cap {ERROR_SUCCESS, NO_FILE} # {} }

\* the last thing the run did
LastEvent == events[Len(events)]

\* the mirror's chart links, by stem
MirrorStems == { Stem(f) : f \in GlobSrtb(hardlink_dir) }
MirrorStems0 == { Stem(f) : f \in { g \in fs0[hardlink_dir] : Len(g) >= 2 /\ g[Len(g)] = "srtb" } }

AllSourcesExist == \A i \in 1..Len(srtb_list) : SrtbName(srtb_stem(srtb_list[i])) \in fs[source_custom_chart_dir]

Returned == pc = "done"

(***************************************************************************)
(* C1  Reconciliation convergence: when create_hardlink returns from a run *)
(* whose chart sources all exist on the mirror's volume, the chart links   *)
(* of the mirror root are exactly the target file references; every link   *)
(* the run found for a non-target was unlinked, every target link it did   *)
(* not find was created, and a target link it found was neither unlinked   *)
(* nor created again and is counted as a success.                          *)
(***************************************************************************)
C1_Convergence ==
    (Returned /\ layout # "xvol" /\ AllSourcesExist) =>
        /\ MirrorStems = targeted_srtb_stem
        /\ \A r \in MirrorStems0 \ targeted_srtb_stem : <<hardlink_dir, SrtbName(r)>> \in unlinked
        /\ \A i \in Positions :
             LET r == srtb_stem(srtb_list[i + 1])
                 first == \A j \in Positions : srtb_stem(srtb_list[j + 1]) = r => i <= j
             IN IF r \in MirrorStems0
                THEN /\ <<hardlink_dir, SrtbName(r)>> \notin unlinked
                     /\ Codes("chart", i) = {ERROR_ALREADY_EXISTS}
                     /\ i \in Counted
                ELSE first => Codes("chart", i) = {ERROR_SUCCESS}
        /\ result.success_creation_count = Len(srtb_list)

\* a returned run that removed a stale link, kept a target link and
\* created a missing one
C1_Witness ==
    /\ Returned /\ layout = "samevol" /\ AllSourcesExist
    /\ MirrorStems0 \ targeted_srtb_stem # {}
    /\ MirrorStems0 \cap targeted_srtb_stem # {}
    /\ targeted_srtb_stem \ MirrorStems0 # {}

(***************************************************************************)
(* C2  As claimed: a chart link attempt that finds the link already there  *)
(* counts the target and is followed by the album-art and clip link        *)
(* attempts of the same target.                                            *)
(***************************************************************************)
C2_ProceedsToAssets ==
    \A k \in DOMAIN events :
        (events[k][1] = "chart" /\ events[k][3] = ERROR_ALREADY_EXISTS) =>
            /\ events[k][2] \in Counted
            /\ IF k = Len(events)
               THEN pc = "art" /\ idx = events[k][2]
               ELSE events[k + 1][1] = "art" /\ events[k + 1][2] = events[k][2]

(***************************************************************************)
(* C2  As amended: a chart link attempt that finds the link already there  *)
(* counts the target and moves on to the next target; no album-art or clip *)
(* link of that target is attempted.                                       *)
(***************************************************************************)
C2_SkipsAssets ==
    \A k \in DOMAIN events :
        (events[k][1] = "chart" /\ events[k][3] = ERROR_ALREADY_EXISTS) =>
            LET i == events[k][2]
            IN /\ i \in Counted
               /\ result.success_creation_count >= Cardinality({ j \in Counted : j <= i })
               /\ Codes("art", i) = {} /\ Codes("clip", i) = {}
               /\ IF k = Len(events)
                  THEN pc \in {"chart", "done"} /\ idx = i + 1
                  ELSE events[k + 1] = Event("callback", i + 1, Len(srtb_list))

\* a second target is being processed after the first one was found linked
C2_Witness ==
    /\ Len(events) >= 4
    /\ events[3] = Event("chart", 0, ERROR_ALREADY_EXISTS)
    /\ events[4][1] = "callback"
    /\ result.success_creation_count >= 1

(***************************************************************************)
(* C3  Prune guarantee, as claimed: no link is attempted before the prune, *)
(* and from the prune on (so on every return) the mirror holds no chart    *)
(* link, album-art file or clip file whose stem is not a target's.         *)
(***************************************************************************)
C3_PruneGuarantee ==
    /\ \A k \in DOMAIN events :
         events[k][1] \in {"chart", "art", "clip"} => \E j \in 1..(k - 1) : events[j][1] = "prune"
    /\ (\E k \in DOMAIN events : events[k][1] = "prune") =>
         /\ UntargetedCharts = {}
         /\ UntargetedArt = {}
         /\ UntargetedClips = {}

(***************************************************************************)
(* C4  Cross-volume abort: a chart link attempt answered with winerror 17  *)
(* is the last thing the run does: it returns with has_error set and a     *)
(* message, nothing is logged for a later target, and the success count is *)
(* the number of earlier targets that were counted (0 at the first).       *)
(***************************************************************************)
C4_CrossVolumeAbort ==
    \A k \in DOMAIN events :
        (events[k][1] = "chart" /\ events[k][3] = ERROR_NOT_SAME_DEVICE) =>
            LET i == events[k][2]
            IN /\ k = Len(events)
               /\ Returned /\ idx = i
               /\ \A j \in DOMAIN events : events[j][1] # "prune" => events[j][2] <= i
               /\ result.has_error /\ result.error_message # ""
               /\ result.success_creation_count = Cardinality({ j \in Counted : j < i })
               /\ i = 0 => result.success_creation_count = 0

\* the run aborted at a target that is not the last of the list
C4_Witness ==
    /\ Returned /\ result.has_error
    /\ LastEvent = Event("chart", idx, ERROR_NOT_SAME_DEVICE)
    /\ idx + 1 < Len(srtb_list)

(***************************************************************************)
(* C5  Missing source: a processed target whose chart source file does not *)
(* exist gets winerror 2 and nothing else: no album-art or clip attempt,   *)
(* no count, no error flag from it, and the next target's iteration (or    *)
(* the return) follows.                                                    *)
(***************************************************************************)
C5_MissingSourceSkipped ==
    \A k \in DOMAIN events :
        (events[k][1] = "chart"
           /\ SrtbName(srtb_stem(srtb_list[events[k][2] + 1])) \notin fs[source_custom_chart_dir]) =>
            LET i == events[k][2]
            IN /\ events[k][3] = ERROR_FILE_NOT_FOUND
               /\ Codes("art", i) = {} /\ Codes("clip", i) = {}
               /\ i \notin Counted
               /\ result.success_creation_count = Cardinality({ j \in Counted : j # i })
               /\ IF k = Len(events)
                  THEN /\ pc \in {"chart", "done"} /\ idx = i + 1
                       /\ ~result.has_error
                  ELSE events[k + 1] = Event("callback", i + 1, Len(srtb_list))

\* a target with a missing source was skipped and the next one was started
C5_Witness ==
    \E k \in DOMAIN events :
        /\ events[k][1] = "chart" /\ events[k][3] = ERROR_FILE_NOT_FOUND
        /\ k < Len(events)
        /\ events[k + 1][1] = "callback"

(***************************************************************************)
(* C6  Result contract: when create_hardlink returns, the success count is *)
(* the number of targets whose chart link was created or already existed   *)
(* (at most the number of targets), error_message is non-empty exactly     *)
(* when has_error is set, and has_error is set exactly when a chart link   *)
(* attempt was answered with winerror 17.                                  *)
(***************************************************************************)
C6_ResultContract ==
    Returned =>
        /\ result.success_creation_count = Cardinality(ChartLinked)
        /\ result.success_creation_count <= Len(srtb_list)
        /\ (result.error_message # "") <=> result.has_error
        /\ result.has_error <=> (\E i \in Positions : ERROR_NOT_SAME_DEVICE \in Codes("chart", i))

\* a returned run with one link found and one link created
C6_Witness ==
    /\ Returned
    /\ \E i, j \in Positions :
         /\ ERROR_ALREADY_EXISTS \in Codes("chart", i)
         /\ ERROR_SUCCESS \in Codes("chart", j)
         /\ NO_FILE \in Codes("clip", j)

(***************************************************************************)
(* C7  Asset-link asymmetry: a failed album-art link is followed by the    *)
(* clip attempt of the same target, and the target is counted once its     *)
(* clip step succeeds; a failed clip link ends the run with the error      *)
(* raised and nothing returned.                                            *)
(***************************************************************************)
C7_AssetAsymmetry ==
    \A k \in DOMAIN events :
        LET i == events[k][2]
            failed == events[k][3] \notin {ERROR_SUCCESS, NO_FILE}
        IN /\ (events[k][1] = "art" /\ failed) =>
                /\ IF k = Len(events)
                   THEN pc = "clip" /\ idx = i
                   ELSE events[k + 1][1] = "clip" /\ events[k + 1][2] = i
                /\ Returned => (i \in Counted /\ result.success_creation_count = Cardinality(Counted))
           /\ (events[k][1] = "clip" /\ failed) =>
                /\ k = Len(events)
                /\ pc = "raised"

\* a run returned although an album-art link had failed
C7_Witness ==
    /\ Returned /\ ~result.has_error
    /\ \E i \in Positions :
         /\ Codes("art", i) \cap {ERROR_ALREADY_EXISTS, ERROR_ACCESS_DENIED} # {}
         /\ i \in Counted

(***************************************************************************)
(* Reading an index pass                                                   *)
(***************************************************************************)
\* the files whose iteration the pass has completed
Examined == { chart_file_list[k] : k \in 1..load_idx }

\* the file was new or modified (to the second) when the pass began
Stale0(r) == r \notin DOMAIN db0 \/ db0[r].file_modified_at # FormatMtime(chart[r].mtime)

\* the pass left the stored row of r, or its absence, as it was
RowKept(r) ==
    /\ r \in DOMAIN db <=> r \in DOMAIN db0
    /\ r \in DOMAIN db => db[r] = db0[r]

(***************************************************************************)
(* C9  Idempotent indexing: an index pass that directly follows a returned *)
(* pass, with no change to the source directory in between, executes no    *)
(* upsert, calls on_each_load never and leaves every row, created_at       *)
(* included, as it was.                                                    *)
(***************************************************************************)
C9_IdempotentIndexing ==
    (rerun /\ fresh) =>
        /\ upserted = {}
        /\ load_log = <<>>
        /\ db = db0

\* a second pass has returned over a table with rows and a directory with
\* two files, one of which it had to parse again
C9_Witness ==
    /\ rerun /\ fresh /\ load_pc = "returned"
    /\ DOMAIN db # {}
    /\ Len(chart_file_list) >= 2
    /\ parsed # {}

(***************************************************************************)
(* C10  Staleness correctness, as claimed: when a pass has returned, every *)
(* indexed file whose modification time differed from the stored           *)
(* file_modified_at was parsed again and its row rewritten with the        *)
(* observed time, and the row of every other indexed file is as it was.    *)
(***************************************************************************)
C10_EveryChangedFileRewritten ==
    (fresh /\ load_pc = "returned") =>
        \A r \in DOMAIN db0 :
            SrtbName(r) \in fs[source_custom_chart_dir] =>
                IF Stale0(r)
                THEN /\ r \in parsed /\ r \in upserted
                     /\ db[r].file_modified_at = FormatMtime(chart[r].mtime)
                ELSE RowKept(r)

(***************************************************************************)
(* C10  As amended: a file the pass has examined whose modification time   *)
(* (to the second) differed from the stored file_modified_at, or that had  *)
(* no row, was parsed again; if it is well formed its row, and only its    *)
(* row, is rewritten with file_modified_at set to the time observed before *)
(* parsing; the row of a file that could not be parsed, of an unmodified   *)
(* file and of a file not examined is left as it was.                      *)
(***************************************************************************)
C10_StalenessCorrectness ==
    (fresh /\ load_pc \in {"loop", "returned", "failed"}) =>
        \A r \in Refs :
            IF r \in Examined /\ Stale0(r)
            THEN /\ r \in parsed
                 /\ IF chart[r].content \in {"v1", "v2"}
                    THEN /\ r \in upserted
                         /\ db[r] = Row(srtb_load(r, chart[r].content), FormatMtime(chart[r].mtime), now)
                    ELSE RowKept(r) /\ r \notin upserted
            ELSE RowKept(r)

\* a returned pass rewrote the row of a modified file and kept another row
C10_Witness ==
    /\ fresh /\ load_pc = "returned"
    /\ \E r, q \in DOMAIN db0 :
         /\ r # q
         /\ Stale0(r) /\ r \in upserted
         /\ db[r].file_modified_at # db0[r].file_modified_at
         /\ ~Stale0(q) /\ db[q] = db0[q]

(***************************************************************************)
(* Reading a reconciliation started from the filter tab                    *)
(***************************************************************************)
\* the file references a search with the submitted filter values returns
\* now, after the reconciliation
SecondSearchStems == { t[1] : t \in search_file_reference(filter_values) }

(***************************************************************************)
(* C8  Round-trip, as claimed: when the reconciliation started with a      *)
(* search result has returned, the chart links of the mirror are exactly   *)
(* the file references a second search with the same condition returns.    *)
(***************************************************************************)
C8_RoundTrip ==
    Returned => MirrorStems = SecondSearchStems

(***************************************************************************)
(* C8  As amended: when the reconciliation has returned without error, the *)
(* chart links of the mirror are exactly those file references of the      *)
(* second search whose chart file exists in the source directory or whose  *)
(* link the run found in the mirror; so the mirror matches the second      *)
(* search whenever every returned chart still exists.                      *)
(***************************************************************************)
C8_RoundTripOfExisting ==
    (Returned /\ ~result.has_error) =>
        /\ MirrorStems = { r \in SecondSearchStems :
                             SrtbName(r) \in fs[source_custom_chart_dir] \/ r \in MirrorStems0 }
        /\ (\A r \in SecondSearchStems : SrtbName(r) \in fs[source_custom_chart_dir])
              => MirrorStems = SecondSearchStems

\* a returned run that created a link, kept the link of a chart that is
\* gone from the source directory and skipped a chart that is gone and had
\* no link
C8_Witness ==
    /\ Returned /\ ~result.has_error /\ layout = "samevol"
    /\ MirrorStems \ MirrorStems0 # {}
    /\ \E r \in MirrorStems : SrtbName(r) \notin fs[source_custom_chart_dir]
    /\ SecondSearchStems \ MirrorStems # {}

(***************************************************************************)
(* Reading how a pass ended                                                *)
(***************************************************************************)
\* the files the parser failed on: parsed, nothing inserted
ParserFailed == parsed \ upserted

\* the pass ended by an exception of the parser at the current file
AbortedByParser ==
    /\ load_pc = "failed"
    /\ load_idx < Len(chart_file_list)
    /\ chart_file \in ParserFailed

(***************************************************************************)
(* C11  Per-file failure isolation: a failure of the parser on one file,   *)
(* in srtb.load or in read_clip_metadata, never ends the pass; the row of  *)
(* that file is left as it was, and when the pass has returned every       *)
(* enumerated file has been examined and every new or changed well-formed  *)
(* file has been parsed and upserted.                                      *)
(***************************************************************************)
C11_FailureIsolation ==
    fresh =>
        /\ ~AbortedByParser
        /\ \A r \in ParserFailed : RowKept(r)
        /\ load_pc = "returned" =>
             \A k \in 1..Len(chart_file_list) :
                LET r == chart_file_list[k]
                IN /\ r \in Examined
                   /\ (Stale0(r) /\ chart[r].content \in {"v1", "v2"}) =>
                         (r \in parsed /\ r \in upserted)

\* the files whose upsert the pass has committed
Committed == Examined \cap upserted

\* the files that had no current row when the pass began
Uncommitted0 == { r \in { chart_file_list[k] : k \in 1..Len(chart_file_list) } : Stale0(r) }

(***************************************************************************)
(* C12  Crash durability: when a pass has been interrupted, the table      *)
(* holds the new row of every file whose upsert was committed and every    *)
(* other row as it was before the pass, so that at most the file of the    *)
(* interrupted iteration is lost; and the pass that follows, unless it is  *)
(* itself stopped from outside, attempts exactly the files that had no     *)
(* committed current row.                                                  *)
(***************************************************************************)
C12_CrashDurability ==
    fresh =>
        /\ load_pc = "failed" =>
             /\ \A r \in Committed :
                   /\ r \in DOMAIN db
                   /\ db[r] = Row(srtb_load(r, chart[r].content), FormatMtime(chart[r].mtime), now)
             /\ \A r \in (DOMAIN db \cup DOMAIN db0) \ Committed : RowKept(r)
        /\ (resumed /\ (load_pc = "returned" \/ AbortedByParser)) => parsed = Uncommitted0

(***************************************************************************)
(* C13  Index store invariant: every row is stored under its own           *)
(* file_reference, one row per reference; a step of the program that       *)
(* changes the row of a reference that had one is an upsert that leaves    *)
(* the reference in the table; and a step that takes a reference out of    *)
(* the table is truncate_srtb_table, which takes out all of them.  A       *)
(* chart file deleted from the source directory keeps its row through      *)
(* later passes.                                                           *)
(***************************************************************************)
C13_StoreInvariant ==
    /\ [](\A r \in DOMAIN db : db[r].file_reference = r)
    /\ [][ /\ (\E r \in DOMAIN db : r \notin DOMAIN db') => (truncate_srtb_table /\ DOMAIN db' = {})
           /\ (\E r \in DOMAIN db \cap DOMAIN db' : db'[r] # db[r]) =>
                 /\ load_pc = "loop"
                 /\ \A r \in DOMAIN db : r # chart_file => (r \in DOMAIN db' /\ db'[r] = db[r])
         ]_vars

\* a pass has returned over a source directory from which a chart file
\* was deleted, and the table still holds the row of that file
C13_Witness ==
    /\ fresh /\ load_pc = "returned"
    /\ \E r \in DOMAIN db : chart[r] = Absent
    /\ Cardinality(DOMAIN db) >= 2

(***************************************************************************)
(* Reading a search                                                        *)
(***************************************************************************)
\* the handler has searched and handed the result to create_hardlink
Searched == pc = "prune" /\ events = <<>> /\ unlinked = {}

\* the file references the search returned
ReturnedRefs == { srtb_list[i][1] : i \in 1..Len(srtb_list) }

\* the file references search_file_reference returns for a condition
Selected(c) == { t[1] : t \in search_file_reference(c) }

\* text contains the value as a substring, letter case ignored; every text
\* contains the empty value
Contains(text, v) ==
    \E i \in 0..(Len(text) - Len(v)) : \A k \in 1..Len(v) : Lower(text[i + k]) = Lower(v[k])

\* the condition without its title, artist and charter lists
WithoutPositive(c) == [c EXCEPT !.title = <<>>, !.artist = <<>>, !.charter = <<>>]

\* the field contains at least one value of a list that is not empty
ContainsOneOf(text, values) == values # <<>> => \E k \in DOMAIN values : Contains(text, values[k])

(***************************************************************************)
(* C14  Positive filters: a record is returned by the search exactly when  *)
(* it satisfies the other constraints of the condition and, for each of    *)
(* title, artist and charter whose value list is not empty, its field      *)
(* contains at least one of the listed values.                             *)
(***************************************************************************)
C14_PositiveFilters ==
    Searched =>
        ReturnedRefs =
            { r \in Selected(WithoutPositive(filter_values)) :
                /\ ContainsOneOf(db[r].track_title, filter_values.title)
                /\ ContainsOneOf(db[r].track_artist, filter_values.artist)
                /\ ContainsOneOf(db[r].charter, filter_values.charter) }

\* the condition without its exclusion lists
WithoutExclude(c) == [c EXCEPT !.exclude_artist = <<>>, !.exclude_charter = <<>>]

\* the field contains none of the values
ContainsNoneOf(text, values) == \A k \in DOMAIN values : ~Contains(text, values[k])

\* no value of the list holds a LIKE wildcard
Literal(values) == \A k \in DOMAIN values : \A j \in DOMAIN values[k] : values[k][j] \notin {"%", "_"}

WithoutLevels(c) == [c EXCEPT !.min_diff_level = NULL, !.max_diff_level = NULL]

\* one tier of the record has a level that satisfies every bound set
TierInRange(row, c) ==
    \E k \in DOMAIN DifficultyColumns :
        LET level == row[DifficultyColumns[k]]
        IN /\ level # NULL
           /\ c.min_diff_level # NULL => level >= c.min_diff_level
           /\ c.max_diff_level # NULL => level <= c.max_diff_level

(***************************************************************************)
(* C16  Difficulty bounds: when min_diff_level or max_diff_level is set,   *)
(* a record is returned exactly when it satisfies the other constraints    *)
(* and one of its five tiers has a non-null level that satisfies every     *)
(* bound that is set.                                                      *)
(***************************************************************************)
C16_DifficultyBounds ==
    (Searched /\ (filter_values.min_diff_level # NULL \/ filter_values.max_diff_level # NULL)) =>
        ReturnedRefs =
            { r \in Selected(WithoutLevels(filter_values)) : TierInRange(db[r], filter_values) }

\* a list that holds blank strings only, as an enabled empty text form
\* submits
Blank(values) == values # <<>> /\ \A k \in DOMAIN values : values[k] = <<>>

\* the condition with every such list taken as not set
WithoutBlank(c) ==
    [c EXCEPT !.title = IF Blank(@) THEN <<>> ELSE @,
              !.artist = IF Blank(@) THEN <<>> ELSE @,
              !.charter = IF Blank(@) THEN <<>> ELSE @,
              !.exclude_artist = IF Blank(@) THEN <<>> ELSE @,
              !.exclude_charter = IF Blank(@) THEN <<>> ELSE @]

(***************************************************************************)
(* C17  Absent or empty fields impose no constraint: the search returns    *)
(* the records it returns for the same condition with every list that      *)
(* holds only a blank string left out, and every record of the table when  *)
(* nothing else is set.                                                    *)
(***************************************************************************)
C17_EmptyFieldsUnconstrained ==
    Searched =>
        /\ ReturnedRefs = Selected(WithoutBlank(filter_values))
        /\ WithoutBlank(filter_values) = SearchCondition => ReturnedRefs = DOMAIN db

\* the list fields of SearchCondition
ListFields == {"title", "artist", "charter", "exclude_artist", "exclude_charter"}

\* texts a user can type into a filter form
TypedValues ==
    { <<"z">>, <<"O", "R">>, <<"'">>, <<"'", "'">>, <<"a", "'", "O", "R", "'", "a">> }

(***************************************************************************)
(* C18  Injection guard: replacing a value of a condition by any other     *)
(* text, quote characters and keywords included, leaves the structure of   *)
(* the executed predicate as it was: the same fields are set with the same *)
(* number of values, so the predicates have the same structure.            *)
(***************************************************************************)
C18_InjectionGuard ==
    Searched =>
        \A f \in ListFields : \A k \in DOMAIN filter_values[f] : \A v \in TypedValues :
            filter_values[f][k] # <<>> =>
                Structure([filter_values EXCEPT ![f][k] = v]) = Structure(filter_values)

LinkedArt == fs[hardlink_album_art_dir] \ fs0[hardlink_album_art_dir]
LinkedClips == fs[hardlink_clip_dir] \ fs0[hardlink_clip_dir]

(***************************************************************************)
(* C20  Asset resolution: every album-art file and every clip file the     *)
(* run has linked into the mirror has a base name (the name without its    *)
(* final extension) equal to the album-art, resp. clip, identifier of a    *)
(* target, so that the prune of a later run with the same targets keeps    *)
(* it.                                                                     *)
(***************************************************************************)
C20_AssetResolution ==
    /\ \A f \in LinkedArt : Stem(f) \in targeted_album_art_name
    /\ \A f \in LinkedClips : Stem(f) \in targeted_clip_name

\* no link attempt of the run was answered with an error other than the
\* ones create_hardlink tests for
NoOtherError ==
    \A k \in DOMAIN events :
        events[k][1] \in {"chart", "art", "clip"} => events[k][3] # ERROR_ACCESS_DENIED

(***************************************************************************)
(* C21  On one volume, with the chart source of every target in place and  *)
(* no link attempt failing for a reason outside the run, create_hardlink   *)
(* does not end by an exception, and when it returns has_error is false    *)
(* and success_creation_count is the number of targets: an asset link      *)
(* that is already in the mirror never ends the run.                       *)
(***************************************************************************)
C21_SameVolumeCompletes ==
    (layout # "xvol" /\ AllSourcesExist /\ NoOtherError) =>
        /\ pc # "raised"
        /\ Returned =>
             /\ ~result.has_error
             /\ result.success_creation_count = Len(srtb_list)

\* the folders of custom_charts_dir
SourceDirs == {source_custom_chart_dir, source_album_art_dir, source_clip_dir}

(***************************************************************************)
(* C22  Frame of a run, for every accepted pair of directories: every file *)
(* the source folders held when create_hardlink was called is still there; *)
(* what the run has unlinked are chart files of the mirror root and files  *)
(* of the mirror's AlbumArt and AudioClips folders whose stem is not       *)
(* targeted; and the table of the index is as it was.                      *)
(***************************************************************************)
C22_SourceUntouched ==
    pc # "idle" =>
        /\ \A d \in SourceDirs : fs0[d] \subseteq fs[d]
        /\ \A u \in unlinked :
              \/ u[1] = hardlink_dir /\ Stem(u[2]) \notin targeted_srtb_stem
              \/ u[1] = hardlink_album_art_dir /\ Stem(u[2]) \notin targeted_album_art_name
              \/ u[1] = hardlink_clip_dir /\ Stem(u[2]) \notin targeted_clip_name
        /\ db = <<>>

====
